---- MODULE Spec2Model ----
(***************************************************************************)
(* Matching & entitlement engine of src/main.py (FastAPI + asyncpg +       *)
(* aiogram).  The store is the PostgreSQL database: tables users, likes    *)
(* and matches.  No handler opens a transaction, so every conn.execute /   *)
(* conn.fetchrow / conn.fetch is its own autocommitted statement: one      *)
(* statement is one atomic step, and concurrent requests interleave        *)
(* between the statements of a handler (every statement is an await).      *)
(***************************************************************************)
EXTENDS Integers, FiniteSets, Sequences, TLC

\* ---------------------------------------------------------------- bounds
NumUsers == 2        \* telegram ids 1..NumUsers
NumProcs == 3        \* requests in a run where each request slot is used once
NumWorkers == 2      \* requests in flight at once where slots are reused
MaxTicks == 2        \* the clock runs from 0 to MaxTicks * TickDays
TickDays == 30       \* days the clock advances in one step
MaxPayments == 2     \* successful_payment messages delivered in one run

\* ------------------------------------------------------ program constants
PremiumDays == 30    \* timedelta(days=30)
PremiumPrice == 100  \* total_amount == 100
MinAgeDefault == 18  \* min_age: int = 18
MaxAgeDefault == 99  \* max_age: int = 99
CandLimit == 20      \* LIMIT 20
NULL == -1           \* SQL NULL / Python None of premium_expires_at

UserIds == 1..NumUsers
Procs == 1..NumProcs
Workers == 1..NumWorkers
MaxNow == MaxTicks * TickDays
Pairs == UserIds \X UserIds

VARIABLES
    users,     \* table users: telegram_id -> row (the domain is the set of rows)
    likes,     \* table likes: set of <<from_user, to_user>>, PRIMARY KEY (from_user, to_user)
    matches,   \* table matches: set of <<user_1, user_2>>, PRIMARY KEY (user_1, user_2)
    now,       \* the clock: NOW() of the database and datetime.now() of the process
    pc,        \* per request: the statement it is about to run
    loc,       \* per request: the handler's local variables and its response
    payments   \* successful_payment messages delivered so far

vars == <<users, likes, matches, now, pc, loc, payments>>

\* A handler's locals.  uid: telegram_id / from_user / user_id; to: to_user;
\* mutual: the row fetched at line 392; is_premium, expires: the fetched
\* subscription fields; new_expiry: line 148 or 151; found: the row
\* existed; currency, amount: the payment's; is_match: the response of /like; rows: the response of
\* /candidates; filt: the query's filter arguments; status: the outcome.
NoFilter == [city |-> "", min_age |-> MinAgeDefault, max_age |-> MaxAgeDefault, goal |-> ""]

LocInit ==
    [op |-> "", uid |-> 0, to |-> 0, mutual |-> FALSE, is_match |-> FALSE,
     gender |-> "", orientation |-> "",
     found |-> FALSE, is_premium |-> FALSE, expires |-> NULL,
     new_expiry |-> NULL, currency |-> "", amount |-> 0, filt |-> NoFilter,
     rows |-> {}, status |-> ""]

\* What a finished handler keeps: the request it served and its outcome
\* (each handler adds the fields of its own response).
Response(l, status) ==
    [LocInit EXCEPT !.op = l.op, !.uid = l.uid, !.to = l.to, !.status = status]

\* ------------------------------------------------------------ SQL helpers
\* NULL compared with anything is not true.
SqlLess(a, b) == a # NULL /\ b # NULL /\ a < b

\* (the statement as a like/unlike toggle)
InsertLikeToggle(table, from_user, to_user) ==
    IF <<from_user, to_user>> \in table
    THEN table \ {<<from_user, to_user>>}
    ELSE table \cup {<<from_user, to_user>>}

\* INSERT INTO likes (from_user, to_user) VALUES ($1, $2) ON CONFLICT DO NOTHING
InsertLike(table, from_user, to_user) ==
    IF <<from_user, to_user>> \in table THEN table
    ELSE table \cup {<<from_user, to_user>>}

\* (the statement with like.to_user bound to both parameters)
FetchMutualTypo(table, from_user, to_user) == <<to_user, to_user>> \in table

\* SELECT * FROM likes WHERE from_user = $1 AND to_user = $2, with
\* ($1, $2) = (like.to_user, like.from_user)
FetchMutual(table, from_user, to_user) == <<to_user, from_user>> \in table

\* INSERT INTO matches (user_1, user_2) VALUES ($1, $2) ON CONFLICT DO NOTHING,
\* with ($1, $2) = (like.from_user, like.to_user): the row is stored in the
\* order of the request, and the conflict target is the primary key
\* (user_1, user_2).
InsertMatch(table, from_user, to_user) ==
    IF <<from_user, to_user>> \in table THEN table
    ELSE table \cup {<<from_user, to_user>>}

\* DELETE FROM likes WHERE from_user = $1 OR to_user = $1 (and the same on matches)
DeletePairsOf(table, telegram_id) ==
    {r \in table : r[1] # telegram_id /\ r[2] # telegram_id}

\* DELETE FROM users WHERE telegram_id = $1
DeleteUserRow(table, telegram_id) ==
    [u \in DOMAIN table \ {telegram_id} |-> table[u]]

\* ------------------------------------------------------------------ Init
Init ==
    /\ users = <<>>
    /\ likes = {}
    /\ matches = {}
    /\ now = 0
    /\ pc = [p \in Procs |-> "idle"]
    /\ loc = [p \in Procs |-> LocInit]
    /\ payments = 0

\* --------------------------------------------------------- POST /like
\* line 391: the request arrives and its first statement runs
LikeUserInsertLike(p, from_user, to_user) ==
    /\ pc[p] = "idle"
    /\ likes' = InsertLike(likes, from_user, to_user)
    /\ pc' = [pc EXCEPT ![p] = "like_mutual"]
    /\ loc' = [loc EXCEPT ![p] = [LocInit EXCEPT !.op = "like", !.uid = from_user, !.to = to_user]]
    /\ UNCHANGED <<users, matches, now, payments>>

\* lines 392-393, and line 396 when there is no reverse like
LikeUserFetchMutual(p) ==
    /\ pc[p] = "like_mutual"
    /\ LET mutual == FetchMutual(likes, loc[p].uid, loc[p].to) IN
        /\ loc' = [loc EXCEPT ![p] = IF mutual THEN [@ EXCEPT !.mutual = TRUE]
                                     ELSE Response(@, "200")]
        /\ pc' = [pc EXCEPT ![p] = IF mutual THEN "like_match" ELSE "done"]
    /\ UNCHANGED <<users, likes, matches, now, payments>>

\* (lines 394-395 reporting a match only when the row is new)
LikeUserInsertMatchNew(p) ==
    /\ pc[p] = "like_match"
    /\ matches' = InsertMatch(matches, loc[p].uid, loc[p].to)
    /\ loc' = [loc EXCEPT ![p] = [Response(@, "200") EXCEPT
                                    !.is_match = <<loc[p].uid, loc[p].to>> \notin matches]]
    /\ pc' = [pc EXCEPT ![p] = "done"]
    /\ UNCHANGED <<users, likes, now, payments>>

\* lines 394-395
LikeUserInsertMatch(p) ==
    /\ pc[p] = "like_match"
    /\ matches' = InsertMatch(matches, loc[p].uid, loc[p].to)
    /\ loc' = [loc EXCEPT ![p] = [Response(@, "200") EXCEPT !.is_match = TRUE]]
    /\ pc' = [pc EXCEPT ![p] = "done"]
    /\ UNCHANGED <<users, likes, now, payments>>

\* ------------------------------------------- DELETE /admin/delete_user
\* line 440
DeleteUserLikes(p, telegram_id) ==
    /\ pc[p] = "idle"
    /\ likes' = DeletePairsOf(likes, telegram_id)
    /\ pc' = [pc EXCEPT ![p] = "delete_matches"]
    /\ loc' = [loc EXCEPT ![p] = [LocInit EXCEPT !.op = "delete_user", !.uid = telegram_id]]
    /\ UNCHANGED <<users, matches, now, payments>>

\* line 441
DeleteUserMatches(p) ==
    /\ pc[p] = "delete_matches"
    /\ matches' = DeletePairsOf(matches, loc[p].uid)
    /\ pc' = [pc EXCEPT ![p] = "delete_user"]
    /\ UNCHANGED <<users, likes, now, loc, payments>>

\* lines 442-443
DeleteUserUsers(p) ==
    /\ pc[p] = "delete_user"
    /\ users' = DeleteUserRow(users, loc[p].uid)
    /\ loc' = [loc EXCEPT ![p] = Response(@, "deleted")]
    /\ pc' = [pc EXCEPT ![p] = "done"]
    /\ UNCHANGED <<likes, matches, now, payments>>

\* The response is sent and the connection goes back to the pool.
Recycle(p) ==
    /\ pc[p] = "done"
    /\ pc' = [pc EXCEPT ![p] = "idle"]
    /\ loc' = [loc EXCEPT ![p] = LocInit]
    /\ UNCHANGED <<users, likes, matches, now, payments>>


\* ------------------------------------------------ entitlement resolver
\* (the UPDATE with premium_expires_at <= NOW())
CheckAndRemoveAtExpiry(table, telegram_id, clock) ==
    IF /\ telegram_id \in DOMAIN table
       /\ table[telegram_id].is_premium
       /\ table[telegram_id].premium_expires_at # NULL
       /\ table[telegram_id].premium_expires_at <= clock
    THEN [table EXCEPT ![telegram_id].is_premium = FALSE,
                       ![telegram_id].premium_expires_at = NULL]
    ELSE table

\* (the UPDATE without premium_expires_at = NULL)
CheckAndRemoveKeepDate(table, telegram_id, clock) ==
    IF /\ telegram_id \in DOMAIN table
       /\ table[telegram_id].is_premium
       /\ SqlLess(table[telegram_id].premium_expires_at, clock)
    THEN [table EXCEPT ![telegram_id].is_premium = FALSE]
    ELSE table

\* check_and_remove_expired_premium: UPDATE users SET is_premium = FALSE,
\* premium_expires_at = NULL WHERE telegram_id = $1 AND is_premium = TRUE
\* AND premium_expires_at < NOW()
CheckAndRemoveExpiredPremium(table, telegram_id, clock) ==
    IF /\ telegram_id \in DOMAIN table
       /\ table[telegram_id].is_premium
       /\ SqlLess(table[telegram_id].premium_expires_at, clock)
    THEN [table EXCEPT ![telegram_id].is_premium = FALSE,
                       ![telegram_id].premium_expires_at = NULL]
    ELSE table

\* The statement inside try/except: when it raises, the error is logged and
\* the handler goes on with the table as it was.
TryCheckAndRemove(table, telegram_id, clock, ok) ==
    IF ok THEN CheckAndRemoveExpiredPremium(table, telegram_id, clock) ELSE table

\* ------------------------------------------------------ POST /register
\* The request bodies the model sends: UserProfile without the fields no
\* handler of the engine reads (username, first_name, name, country,
\* photo, bio).
DefaultProfile ==
    [gender |-> "male", orientation |-> "hetero", city |-> "A", age |-> 20, goal |-> "x"]

Profiles ==
    {DefaultProfile,
     [gender |-> "female", orientation |-> "gay", city |-> "B", age |-> 30, goal |-> "y"]}

UserProfile ==
    [telegram_id : UserIds, profile : Profiles, is_premium : BOOLEAN]

\* The bodies sent to /register (a new account's first profile, with either
\* value of is_premium) and to PUT /me (any profile, carrying is_premium).
RegisterRequests == {user \in UserProfile : user.profile = DefaultProfile}
UpdateRequests == {user \in UserProfile : user.is_premium}

\* Bodies of /register with every gender and orientation the query tells apart.
Genders == {"male", "female", "other"}
Orientations == {"hetero", "gay", "bisexual"}
GenderProfiles ==
    [gender : Genders, orientation : Orientations, city : {"A"}, age : {20}, goal : {"x"}]
SelectRequests ==
    [telegram_id : UserIds, profile : GenderProfiles, is_premium : BOOLEAN]
\* Bodies of /register of accounts that are not premium, with any profile.
BrowseRequests == {user \in UserProfile : ~user.is_premium}

\* (the upsert with is_premium = $13 in its SET list)
RegisterRowOverwrite(table, user) ==
    [u \in DOMAIN table \cup {user.telegram_id} |->
        IF u = user.telegram_id
        THEN [gender |-> user.profile.gender,
              orientation |-> user.profile.orientation,
              city |-> user.profile.city,
              age |-> user.profile.age,
              goal |-> user.profile.goal,
              is_premium |-> user.is_premium,
              premium_expires_at |-> IF u \in DOMAIN table
                                     THEN table[u].premium_expires_at ELSE NULL]
        ELSE table[u]]

\* INSERT INTO users (..., is_premium) VALUES (..., $13) ON CONFLICT
\* (telegram_id) DO UPDATE SET name, age, gender, orientation, city, goal,
\* photo, bio.  premium_expires_at is not in the column list: NULL.
RegisterRow(table, user) ==
    IF user.telegram_id \in DOMAIN table
    THEN [table EXCEPT ![user.telegram_id] =
            [@ EXCEPT !.gender = user.profile.gender,
                      !.orientation = user.profile.orientation,
                      !.city = user.profile.city,
                      !.age = user.profile.age,
                      !.goal = user.profile.goal]]
    ELSE [u \in DOMAIN table \cup {user.telegram_id} |->
            IF u = user.telegram_id
            THEN [gender |-> user.profile.gender,
                  orientation |-> user.profile.orientation,
                  city |-> user.profile.city,
                  age |-> user.profile.age,
                  goal |-> user.profile.goal,
                  is_premium |-> user.is_premium,
                  premium_expires_at |-> NULL]
            ELSE table[u]]

\* One statement: the handler is one step.
Register(user) ==
    /\ users' = RegisterRow(users, user)
    /\ UNCHANGED <<likes, matches, now, pc, loc, payments>>

\* ----------------------------------------------------------- PUT /me
\* UPDATE users SET name, age, gender, orientation, city, goal, photo, bio
\* WHERE telegram_id = $1 (no row: 404)
UpdateProfileRow(table, user) ==
    IF user.telegram_id \in DOMAIN table
    THEN [table EXCEPT ![user.telegram_id] =
            [@ EXCEPT !.gender = user.profile.gender,
                      !.orientation = user.profile.orientation,
                      !.city = user.profile.city,
                      !.age = user.profile.age,
                      !.goal = user.profile.goal]]
    ELSE table

UpdateProfile(user) ==
    /\ users' = UpdateProfileRow(users, user)
    /\ UNCHANGED <<likes, matches, now, pc, loc, payments>>

\* ----------------------------------------------------------- GET /me
\* line 290
GetMeCheck(p, telegram_id, ok) ==
    /\ pc[p] = "idle"
    /\ users' = TryCheckAndRemove(users, telegram_id, now, ok)
    /\ pc' = [pc EXCEPT ![p] = "me_fetch"]
    /\ loc' = [loc EXCEPT ![p] = [LocInit EXCEPT !.op = "get_me", !.uid = telegram_id]]
    /\ UNCHANGED <<likes, matches, now, payments>>

\* The row /me returns, as far as the subscription goes.
GetMeRow(table, telegram_id) ==
    [found |-> telegram_id \in DOMAIN table,
     is_premium |-> IF telegram_id \in DOMAIN table
                    THEN table[telegram_id].is_premium ELSE FALSE,
     expires |-> IF telegram_id \in DOMAIN table
                 THEN table[telegram_id].premium_expires_at ELSE NULL]

\* lines 292-301
GetMeFetch(p) ==
    /\ pc[p] = "me_fetch"
    /\ LET row == GetMeRow(users, loc[p].uid) IN
        loc' = [loc EXCEPT ![p] = [Response(loc[p], IF row.found THEN "200" ELSE "404")
                                     EXCEPT !.found = row.found,
                                            !.is_premium = row.is_premium,
                                            !.expires = row.expires]]
    /\ pc' = [pc EXCEPT ![p] = "done"]
    /\ UNCHANGED <<users, likes, matches, now, payments>>
\* ------------------------------------------------------ GET /candidates
\* The filter arguments the model sends ("" is an absent Optional[str]).
Filters ==
    {NoFilter,
     [city |-> "A", min_age |-> 19, max_age |-> 40, goal |-> "all"]}

\* (lines 355-363 with the requester's own gender in both branches)
WantedGenderOwn(requester_gender, requester_orientation) ==
    IF requester_orientation \in {"hetero", "gay"} THEN requester_gender ELSE ""

\* lines 355-363: the gender the orientation asks for ("" : no restriction)
WantedGender(requester_gender, requester_orientation) ==
    IF requester_orientation = "hetero"
    THEN (IF requester_gender = "male" THEN "female" ELSE "male")
    ELSE IF requester_orientation = "gay" THEN requester_gender
    ELSE ""

\* lines 366-382: the filters of a premium requester
PremiumFilter(row, filt) ==
    /\ (filt.city # "" /\ filt.city # "all") => row.city = filt.city
    /\ filt.min_age > MinAgeDefault => row.age >= filt.min_age
    /\ filt.max_age < MaxAgeDefault => row.age <= filt.max_age
    /\ (filt.goal # "" /\ filt.goal # "all") => row.goal = filt.goal

\* (lines 346-382 without the NOT IN (SELECT to_user FROM likes ...) clause)
CandidateIdsNoLikes(table, liked, telegram_id, gender, orientation, is_premium, filt) ==
    {c \in DOMAIN table :
        /\ c # telegram_id
        /\ LET g == WantedGender(gender, orientation) IN
             g # "" => table[c].gender = g
        /\ is_premium => PremiumFilter(table[c], filt)}

\* lines 346-382: the rows the query selects, before LIMIT
CandidateIds(table, liked, telegram_id, gender, orientation, is_premium, filt) ==
    {c \in DOMAIN table :
        /\ c # telegram_id
        /\ <<telegram_id, c>> \notin liked
        /\ LET g == WantedGender(gender, orientation) IN
             g # "" => table[c].gender = g
        /\ is_premium => PremiumFilter(table[c], filt)}

\* line 384: LIMIT 20 without ORDER BY keeps any 20 of the rows
Limited(ids) ==
    IF Cardinality(ids) <= CandLimit THEN {ids}
    ELSE {s \in SUBSET ids : Cardinality(s) = CandLimit}

\* line 336
GetCandidatesCheck(p, telegram_id, filt, ok) ==
    /\ pc[p] = "idle"
    /\ users' = TryCheckAndRemove(users, telegram_id, now, ok)
    /\ pc' = [pc EXCEPT ![p] = "cand_requester"]
    /\ loc' = [loc EXCEPT ![p] = [LocInit EXCEPT !.op = "get_candidates",
                                                 !.uid = telegram_id, !.filt = filt]]
    /\ UNCHANGED <<likes, matches, now, payments>>

\* lines 338-344
GetCandidatesRequester(p) ==
    /\ pc[p] = "cand_requester"
    /\ IF loc[p].uid \in DOMAIN users
       THEN /\ loc' = [loc EXCEPT ![p].found = TRUE,
                                  ![p].gender = users[loc[p].uid].gender,
                                  ![p].orientation = users[loc[p].uid].orientation,
                                  ![p].is_premium = users[loc[p].uid].is_premium]
            /\ pc' = [pc EXCEPT ![p] = "cand_fetch"]
       ELSE /\ loc' = [loc EXCEPT ![p] = Response(loc[p], "404")]
            /\ pc' = [pc EXCEPT ![p] = "done"]
    /\ UNCHANGED <<users, likes, matches, now, payments>>

\* lines 346-386
GetCandidatesFetch(p) ==
    /\ pc[p] = "cand_fetch"
    /\ \E rows \in Limited(CandidateIds(users, likes, loc[p].uid, loc[p].gender,
                                        loc[p].orientation, loc[p].is_premium,
                                        loc[p].filt)) :
         loc' = [loc EXCEPT ![p] = [Response(loc[p], "200") EXCEPT !.rows = rows]]
    /\ pc' = [pc EXCEPT ![p] = "done"]
    /\ UNCHANGED <<users, likes, matches, now, payments>>

\* ------------------------------------------- successful_payment message
\* (line 133 without the amount)
PaymentValidCurrencyOnly(currency, total_amount) ==
    currency = "XTR"

\* line 133
PaymentValid(currency, total_amount) ==
    currency = "XTR" /\ total_amount = PremiumPrice

\* (lines 146-151 always counting from now)
NewExpiryFromNow(found, is_premium, current_expiry, t) ==
    t + PremiumDays

\* lines 143-151; user: the row fetched at line 137 (found: it exists)
NewExpiry(found, is_premium, current_expiry, t) ==
    IF found /\ is_premium /\ current_expiry # NULL /\ current_expiry > t
    THEN current_expiry + PremiumDays
    ELSE t + PremiumDays

\* lines 154-157: UPDATE users SET is_premium = TRUE, premium_expires_at = $1
\* WHERE telegram_id = $2
UpdatePremium(table, telegram_id, new_expiry) ==
    IF telegram_id \in DOMAIN table
    THEN [table EXCEPT ![telegram_id].is_premium = TRUE,
                       ![telegram_id].premium_expires_at = new_expiry]
    ELSE table

\* lines 123-140, and 164-166 for a payment that is not the product
ProcessPaymentFetch(p, user_id, currency, total_amount) ==
    /\ pc[p] = "idle"
    /\ payments < MaxPayments
    /\ payments' = payments + 1
    /\ IF PaymentValid(currency, total_amount)
       THEN /\ loc' = [loc EXCEPT ![p] =
                        [LocInit EXCEPT !.op = "payment", !.uid = user_id,
                            !.currency = currency, !.amount = total_amount,
                            !.found = user_id \in DOMAIN users,
                            !.is_premium = IF user_id \in DOMAIN users
                                           THEN users[user_id].is_premium ELSE FALSE,
                            !.expires = IF user_id \in DOMAIN users
                                        THEN users[user_id].premium_expires_at ELSE NULL]]
            /\ pc' = [pc EXCEPT ![p] = "pay_compute"]
       ELSE /\ loc' = [loc EXCEPT ![p] =
                        [LocInit EXCEPT !.op = "payment", !.uid = user_id,
                            !.currency = currency, !.amount = total_amount,
                            !.status = "invalid"]]
            /\ pc' = [pc EXCEPT ![p] = "done"]
    /\ UNCHANGED <<users, likes, matches, now>>

\* lines 142-151.  After line 151 the handler reads only user_id and
\* new_expiry (found, whether the row was there, is kept for the reader).
ProcessPaymentCompute(p) ==
    /\ pc[p] = "pay_compute"
    /\ loc' = [loc EXCEPT ![p] =
                [LocInit EXCEPT !.op = "payment", !.uid = loc[p].uid,
                    !.currency = loc[p].currency, !.amount = loc[p].amount,
                    !.found = loc[p].found,
                    !.new_expiry = NewExpiry(loc[p].found, loc[p].is_premium,
                                             loc[p].expires, now)]]
    /\ pc' = [pc EXCEPT ![p] = "pay_update"]
    /\ UNCHANGED <<users, likes, matches, now, payments>>

\* lines 154-160
ProcessPaymentUpdate(p) ==
    /\ pc[p] = "pay_update"
    /\ users' = UpdatePremium(users, loc[p].uid, loc[p].new_expiry)
    /\ loc' = [loc EXCEPT ![p].status = "ok"]
    /\ pc' = [pc EXCEPT ![p] = "done"]
    /\ UNCHANGED <<likes, matches, now, payments>>

\* ------------------------------------------------------------ the clock
Tick ==
    /\ now < MaxNow
    /\ now' = now + TickDays
    /\ UNCHANGED <<users, likes, matches, pc, loc, payments>>

Currencies == {"XTR", "USD"}
Amounts == {PremiumPrice, 1}

MeSteps(p) ==
    \/ \E u \in UserIds, ok \in BOOLEAN : GetMeCheck(p, u, ok)
    \/ GetMeFetch(p)

CandidateSteps(p) ==
    \/ \E u \in UserIds, f \in Filters, ok \in BOOLEAN : GetCandidatesCheck(p, u, f, ok)
    \/ GetCandidatesRequester(p)
    \/ GetCandidatesFetch(p)

PaymentSteps(p) ==
    \/ \E u \in UserIds, c \in Currencies, a \in Amounts : ProcessPaymentFetch(p, u, c, a)
    \/ ProcessPaymentCompute(p)
    \/ ProcessPaymentUpdate(p)


\* -------------------------------------------------------- specifications
LikeSteps(p) ==
    \/ \E f \in UserIds, t \in UserIds : LikeUserInsertLike(p, f, t)
    \/ LikeUserFetchMutual(p)
    \/ LikeUserInsertMatch(p)

DeleteSteps(p) ==
    \/ \E u \in UserIds : DeleteUserLikes(p, u)
    \/ DeleteUserMatches(p)
    \/ DeleteUserUsers(p)

\* Concurrent /like requests, each slot serving one request.
NextLikes == \E p \in Procs : LikeSteps(p)

SpecLikes == Init /\ [][NextLikes]_vars

\* /like and /admin/delete_user requests, any number of them.
NextAffinity ==
    \/ \E p \in Workers : LikeSteps(p) \/ DeleteSteps(p) \/ Recycle(p)
    \/ \E user \in RegisterRequests : ~user.is_premium /\ Register(user)

SpecAffinity == Init /\ [][NextAffinity]_vars

\* Concurrent payments, each handled once, on registered users.
NextPay ==
    \/ \E p \in Procs : PaymentSteps(p)
    \/ \E user \in RegisterRequests : Register(user)
    \/ Tick

SpecPay == Init /\ [][NextPay]_vars

\* Profiles, entitlement and payments, any number of requests.
NextEntitlement ==
    \/ \E p \in Workers : MeSteps(p) \/ CandidateSteps(p) \/ PaymentSteps(p) \/ Recycle(p)
    \/ \E user \in RegisterRequests : Register(user)
    \/ \E user \in UpdateRequests : UpdateProfile(user)
    \/ Tick

SpecEntitlement == Init /\ [][NextEntitlement]_vars

\* /candidates over accounts of every gender and orientation, registered
\* before the queries start.
NextSelect ==
    \/ \E p \in Workers : CandidateSteps(p)
    \/ \E user \in SelectRequests : (\A p \in Procs : pc[p] = "idle") /\ Register(user)

SpecSelect == Init /\ [][NextSelect]_vars

\* /candidates (no filter arguments) with /like and /admin/delete_user.
BrowseSteps(p) ==
    \/ \E u \in UserIds : GetCandidatesCheck(p, u, NoFilter, TRUE)
    \/ GetCandidatesRequester(p)
    \/ GetCandidatesFetch(p)

NextBrowse ==
    \/ \E p \in Workers : BrowseSteps(p) \/ LikeSteps(p) \/ DeleteSteps(p) \/ Recycle(p)
    \/ \E user \in BrowseRequests : Register(user)

SpecBrowse == Init /\ [][NextBrowse]_vars

\* ================================================================ claims

\* like_user run with no other request between its statements (lines
\* 391-396): the tables it leaves and the is_match it returns.
LikeUser(liked, matched, from_user, to_user) ==
    LET liked1 == InsertLike(liked, from_user, to_user)
        mutual == FetchMutual(liked1, from_user, to_user)
    IN  [likes |-> liked1,
         matches |-> IF mutual THEN InsertMatch(matched, from_user, to_user) ELSE matched,
         is_match |-> mutual]

LikeDone(p) == pc[p] = "done" /\ loc[p].op = "like"

\* C1: the matches table never holds both (A,B) and (B,A) for users A # B
\* (the primary key already rules out two equal rows).
AtMostOneMatchPerPair ==
    \A a \in UserIds, b \in UserIds :
        a # b => ~(<<a, b>> \in matches /\ <<b, a>> \in matches)

\* C2: once like(A,B) and like(B,A), A # B, have both returned, a match row
\* for {A,B} exists and one of the two calls returned is_match = true.
ReciprocalLikesMatch ==
    \A p \in Procs, q \in Procs :
        (/\ LikeDone(p) /\ LikeDone(q)
         /\ loc[p].uid # loc[p].to
         /\ loc[q].uid = loc[p].to /\ loc[q].to = loc[p].uid)
        => /\ (<<loc[p].uid, loc[p].to>> \in matches \/ <<loc[p].to, loc[p].uid>> \in matches)
           /\ (loc[p].is_match \/ loc[q].is_match)

\* C2 witness: two reciprocal likes have returned, the first of them with
\* is_match = false.
ReciprocalLikesReturned ==
    \E p \in Procs, q \in Procs :
        /\ LikeDone(p) /\ LikeDone(q)
        /\ loc[p].uid # loc[p].to
        /\ loc[q].uid = loc[p].to /\ loc[q].to = loc[p].uid
        /\ ~loc[p].is_match /\ loc[q].is_match

\* C4: in every store state and for all A, B, like(A,B) run twice in
\* succession leaves the likes and matches rows of one run, and the second
\* run returns what the first returned.
LikeIdempotent ==
    \A a \in UserIds, b \in UserIds :
        LET once == LikeUser(likes, matches, a, b)
            twice == LikeUser(once.likes, once.matches, a, b)
        IN  /\ twice.likes = once.likes
            /\ twice.matches = once.matches
            /\ twice.is_match = once.is_match

\* C4 witness: like(A,B) has returned is_match = true twice, and its rows
\* are there once (the store is the one a further like(A,B) leaves as it is).
LikedTwice ==
    \E p \in Workers, q \in Workers :
        /\ p # q /\ LikeDone(p) /\ LikeDone(q)
        /\ loc[p].uid = loc[q].uid /\ loc[p].to = loc[q].to
        /\ loc[p].uid # loc[p].to
        /\ loc[p].is_match /\ loc[q].is_match
        /\ LikeUser(likes, matches, loc[p].uid, loc[p].to).likes = likes
        /\ LikeUser(likes, matches, loc[p].uid, loc[p].to).matches = matches

\* C5: every match row is backed by both directed likes.  (Between the
\* statements of delete_user the likes are gone before the matches are; the
\* formula asks for the backing only while no delete_user is under way.)
MatchBackedByLikes ==
    (\A p \in Procs : pc[p] \notin {"delete_matches", "delete_user"})
    => \A m \in matches : <<m[1], m[2]>> \in likes /\ <<m[2], m[1]>> \in likes

PaymentDone(p) == pc[p] = "done" /\ loc[p].op = "payment" /\ loc[p].status = "ok"

\* C3: two accepted payments of one user, each of which found the user's
\* row, lose no update: applied one after the other, the second starts from
\* the expiry the first one wrote, so the two computed expiries are at
\* least 30 days apart and the later one is the stored one.
TwoPaymentsExtendTwice ==
    \A p \in Procs, q \in Procs :
        (/\ p # q /\ PaymentDone(p) /\ PaymentDone(q)
         /\ loc[p].uid = loc[q].uid
         /\ loc[p].found /\ loc[q].found)
        => LET a == loc[p].new_expiry
               b == loc[q].new_expiry
               later == IF a >= b THEN a ELSE b
               earlier == IF a >= b THEN b ELSE a
           IN  /\ later >= earlier + PremiumDays
               /\ users[loc[p].uid].is_premium
               /\ users[loc[p].uid].premium_expires_at = later

\* C6: while no payment has been delivered, no user is premium.
NoPremiumWithoutPayment ==
    payments = 0 => \A u \in DOMAIN users : ~users[u].is_premium

\* C7: the is_premium that gates the filters of /candidates (line 366) is
\* the requester's effective entitlement at the time it is read: is_premium
\* set and premium_expires_at null or after now.
FiltersIffEntitled ==
    [][\A p \in Procs :
         (pc[p] = "cand_requester" /\ pc'[p] = "cand_fetch")
         => LET row == users[loc[p].uid] IN
              loc'[p].is_premium
                <=> (row.is_premium /\ (row.premium_expires_at = NULL
                                        \/ row.premium_expires_at > now))]_vars

\* C8: an accepted payment of an existing user computes T + 30 days from a
\* fetched state that is premium with expiry T > now, and now + 30 days from
\* any other; it persists is_premium = true with that expiry.
RenewRule ==
    [][\A p \in Procs :
         /\ (pc[p] = "pay_compute" /\ pc'[p] = "pay_update" /\ loc[p].found)
            => /\ (loc[p].is_premium /\ loc[p].expires # NULL /\ loc[p].expires > now)
                    => loc'[p].new_expiry = loc[p].expires + PremiumDays
               /\ (~loc[p].is_premium \/ loc[p].expires = NULL \/ loc[p].expires <= now)
                    => loc'[p].new_expiry = now + PremiumDays
         /\ (pc[p] = "pay_update" /\ pc'[p] = "done" /\ loc[p].uid \in DOMAIN users)
            => /\ users'[loc[p].uid].is_premium
               /\ users'[loc[p].uid].premium_expires_at = loc[p].new_expiry]_vars

\* C8 witness: a payment of a premium user with a future expiry has been
\* applied: the stored expiry is more than 30 days from now.
RenewedFromExpiry ==
    \E p \in Procs :
        /\ PaymentDone(p) /\ loc[p].found
        /\ loc[p].new_expiry > now + PremiumDays
        /\ loc[p].uid \in DOMAIN users
        /\ users[loc[p].uid].is_premium
        /\ users[loc[p].uid].premium_expires_at = loc[p].new_expiry

\* C9: a payment whose currency is not "XTR" or whose amount is not 100 is
\* rejected at once and changes no user's subscription fields.
InvalidPaymentRejected ==
    [][\A p \in Procs :
         (/\ pc[p] = "idle" /\ pc'[p] # "idle" /\ loc'[p].op = "payment"
          /\ (loc'[p].currency # "XTR" \/ loc'[p].amount # 100))
         => /\ pc'[p] = "done"
            /\ loc'[p].status = "invalid"
            /\ users' = users]_vars

\* C9 witness: a payment in another currency has been rejected while a
\* registered user is not premium.
InvalidPaymentSeen ==
    \E p \in Procs :
        /\ pc[p] = "done" /\ loc[p].op = "payment" /\ loc[p].status = "invalid"
        /\ loc[p].currency = "USD"
        /\ loc[p].uid \in DOMAIN users
        /\ ~users[loc[p].uid].is_premium

\* C10: when the stored premium_expires_at is in the past as /me reads the
\* row, the profile it returns has is_premium = false.
NoStaleProfile ==
    [][\A p \in Procs :
         (/\ pc[p] = "me_fetch" /\ pc'[p] = "done"
          /\ loc[p].uid \in DOMAIN users
          /\ SqlLess(users[loc[p].uid].premium_expires_at, now))
         => ~loc'[p].is_premium]_vars


\* C11: a like returns is_match = true exactly when the reverse like is
\* there as the call looks for it, whether or not the match row exists
\* already; with no reverse like it returns false and adds no match row.
MatchedIffMutual ==
    [][\A p \in Procs :
         /\ (pc[p] = "like_mutual" /\ pc'[p] # "like_mutual")
            => IF <<loc[p].to, loc[p].uid>> \in likes
               THEN pc'[p] = "like_match"
               ELSE pc'[p] = "done" /\ ~loc'[p].is_match /\ matches' = matches
         /\ (pc[p] = "like_match" /\ pc'[p] # "like_match")
            => pc'[p] = "done" /\ loc'[p].is_match]_vars

\* C11 witness: like(A,B) has returned false (no reverse like then) and,
\* later, true, both rows of the pair being in the matches table.
ReLikeMatched ==
    \E p \in Workers, q \in Workers :
        /\ LikeDone(p) /\ LikeDone(q)
        /\ loc[p].uid = loc[q].uid /\ loc[p].to = loc[q].to
        /\ loc[p].uid # loc[p].to
        /\ ~loc[p].is_match /\ loc[q].is_match
        /\ <<loc[p].uid, loc[p].to>> \in matches
        /\ <<loc[p].to, loc[p].uid>> \in matches

\* C12: no like row has from_user = to_user.
NoSelfLike ==
    \A r \in likes : r[1] # r[2]

\* C13: every match row of two users is stored with the lower id first.
MatchesCanonical ==
    \A m \in matches : m[1] # m[2] => m[1] < m[2]

\* C18: every like row and every match row references users that have a
\* profile.
RowsReferenceUsers ==
    \A r \in likes \cup matches : r[1] \in DOMAIN users /\ r[2] \in DOMAIN users

CandidatesDone(p) ==
    pc[p] = "done" /\ loc[p].op = "get_candidates" /\ loc[p].status = "200"

\* C14: for a requester who is not entitled as the query runs (is_premium
\* not set, or premium_expires_at not after now), /candidates returns the
\* compatibility-filtered set whatever the filter arguments are.
FiltersIgnoredUnentitled ==
    [][\A p \in Procs :
         (/\ pc[p] = "cand_fetch" /\ pc'[p] = "done"
          /\ loc[p].uid \in DOMAIN users
          /\ \/ ~users[loc[p].uid].is_premium
             \/ /\ users[loc[p].uid].premium_expires_at # NULL
                /\ users[loc[p].uid].premium_expires_at <= now)
         => loc'[p].rows \in Limited(CandidateIds(users, likes, loc[p].uid, loc[p].gender,
                                                  loc[p].orientation, FALSE, NoFilter))]_vars

\* C15: whatever is_premium is, a hetero requester gets only the opposite
\* binary gender (male: female, female: male, never "other"), a gay
\* requester only their own gender, and for any other orientation no row
\* is left out because of its gender.
OrientationApplied ==
    [][\A p \in Procs :
         (pc[p] = "cand_fetch" /\ pc'[p] = "done")
         => LET l == loc[p]
                rows == loc'[p].rows
            IN  /\ (l.orientation = "hetero" /\ l.gender = "male")
                        => \A c \in rows : users[c].gender = "female"
                /\ (l.orientation = "hetero" /\ l.gender = "female")
                        => \A c \in rows : users[c].gender = "male"
                /\ l.orientation = "hetero" => \A c \in rows : users[c].gender # "other"
                /\ l.orientation = "gay" => \A c \in rows : users[c].gender = l.gender
                /\ l.orientation \notin {"hetero", "gay"}
                        => rows \in Limited({c \in DOMAIN users :
                                                /\ c # l.uid
                                                /\ <<l.uid, c>> \notin likes
                                                /\ l.is_premium => PremiumFilter(users[c], l.filt)})]_vars

\* C15 witness: a male hetero requester has been served a candidate while
\* being premium.
HeteroServed ==
    \E p \in Procs :
        /\ CandidatesDone(p) /\ loc[p].rows # {}
        /\ loc[p].uid \in DOMAIN users
        /\ users[loc[p].uid].gender = "male" /\ users[loc[p].uid].orientation = "hetero"
        /\ users[loc[p].uid].is_premium
        /\ \A c \in loc[p].rows : c \in DOMAIN users /\ users[c].gender = "female"

\* C16: /register on an existing id and PUT /me (the steps that are no
\* request slot's and not the clock's) leave is_premium and
\* premium_expires_at of every existing user as they were.
ProfileWritesKeepSubscription ==
    [][(pc' = pc /\ now' = now)
       => \A u \in DOMAIN users :
            /\ u \in DOMAIN users'
            /\ users'[u].is_premium = users[u].is_premium
            /\ users'[u].premium_expires_at = users[u].premium_expires_at]_vars

\* C16 witness: before any payment, a user whose profile PUT /me has
\* rewritten (every body of PUT /me carries is_premium = true) is not premium.
ProfileUpdatedNotPremium ==
    \E u \in DOMAIN users :
        /\ payments = 0
        /\ users[u].city = "B"
        /\ ~users[u].is_premium /\ users[u].premium_expires_at = NULL

\* C17 as stated: once like(A,B) has returned, no /candidates of A returns
\* B (nor A).
LikedNeverOffered ==
    [][\A p \in Procs, q \in Procs :
         (/\ pc[p] = "cand_fetch" /\ pc'[p] = "done"
          /\ LikeDone(q) /\ loc[q].uid = loc[p].uid)
         => /\ loc[p].uid \notin loc'[p].rows
            /\ loc[q].to \notin loc'[p].rows]_vars

\* C17: /candidates of A never returns A nor any B whose like row (A,B) is
\* there as the query runs, and a like row goes only with the first
\* statement of a delete_user of one of its two users.
ExcludedWhileLiked ==
    [][/\ \A p \in Procs :
            (pc[p] = "cand_fetch" /\ pc'[p] = "done")
            => \A c \in loc'[p].rows : c # loc[p].uid /\ <<loc[p].uid, c>> \notin likes
       /\ \A r \in likes :
            r \notin likes'
            => \E p \in Procs : /\ pc[p] = "idle" /\ pc'[p] = "delete_matches"
                                 /\ loc'[p].uid \in {r[1], r[2]}]_vars

\* C17 witness: like(A,B) has returned, B is registered and of the gender A
\* asks for, and a /candidates of A has returned without B.
LikedNotOffered ==
    \E p \in Procs, q \in Procs :
        /\ CandidatesDone(p) /\ LikeDone(q)
        /\ loc[q].uid = loc[p].uid /\ loc[q].to # loc[q].uid
        /\ <<loc[q].uid, loc[q].to>> \in likes
        /\ loc[q].uid \in DOMAIN users /\ loc[q].to \in DOMAIN users
        /\ users[loc[q].to].gender
             = WantedGender(users[loc[q].uid].gender, users[loc[q].uid].orientation)
        /\ loc[q].to \notin loc[p].rows

\* C19: is_premium goes from true to false only on a row whose stored
\* premium_expires_at is before now at that step.
RevokedOnlyWhenExpired ==
    [][\A u \in DOMAIN users :
         (u \in DOMAIN users' /\ users[u].is_premium /\ ~users'[u].is_premium)
         => SqlLess(users[u].premium_expires_at, now)]_vars

\* C19 witness: between the read and the write of a payment of a user whose
\* premium had run out, the reconciliation has cleared the user's premium.
RevokedDuringPayment ==
    \E p \in Procs :
        /\ pc[p] = "pay_compute" /\ loc[p].found
        /\ loc[p].is_premium /\ SqlLess(loc[p].expires, now)
        /\ loc[p].uid \in DOMAIN users
        /\ ~users[loc[p].uid].is_premium

\* C20: a user who is not premium has no expiry date.
NoExpiryUnlessPremium ==
    \A u \in DOMAIN users :
        ~users[u].is_premium => users[u].premium_expires_at = NULL

\* C20 witness: a user whose payment was applied is, after the paid time
\* ran out, not premium and without a date.
ExpiredCleared ==
    \E p \in Procs :
        /\ PaymentDone(p) /\ loc[p].found
        /\ loc[p].new_expiry < now
        /\ loc[p].uid \in DOMAIN users
        /\ ~users[loc[p].uid].is_premium
        /\ users[loc[p].uid].premium_expires_at = NULL

====
